---------------------------- MODULE Spec2Model ----------------------------
(***************************************************************************)
(* A model of the Scout Engine of The Afters:                              *)
(*   - InstagramLocationScraper.scrape_location and                        *)
(*     _extract_media_from_page        (scrapers/instagram_scraper.py),    *)
(*   - VibeAnalyzer._parse_response, analyze_image and analyze_batch       *)
(*                                      (analyzers/vibe_analyzer.py).      *)
(* The browser, the image host and the classifier are external: every     *)
(* awaited call on them is a step whose outcome (a value or a raised       *)
(* exception) is chosen nondeterministically.                              *)
(***************************************************************************)
EXTENDS Integers, Sequences, FiniteSets, TLC

VARIABLES
    \* ---- scrape_location -------------------------------------------------
    max_retries,    \* self.max_retries
    max_items,      \* parameter max_items
    pc,             \* position in scrape_location
    attempt,        \* loop variable of "for attempt in range(self.max_retries)"
    browser,        \* local "browser": 0 is None, k the browser launched by attempt k-1
    playwright,     \* local "playwright": 0 is None, k the driver started by attempt k-1
    open_browsers,  \* browsers launched and not closed
    open_drivers,   \* playwright drivers started and not stopped
    exc,            \* the exception "e" bound by "except Exception as e"
    page_links,     \* the post links the latest query_selector_all returned
    location_name,  \* local "location_name"
    media_items,    \* local "media_items"
    result,         \* the ScrapeResult returned (meaningful when pc = "returned")
    sleeps,         \* the backoff sleeps performed, in order: <<attempt, seconds>>
    closes,         \* the release calls performed, in order: <<attempt, kind, id>>
    outcomes,       \* how each finished attempt ended: "ok", "429" or the error text
    \* ---- analyze_image (one call) ----------------------------------------
    a_pc,           \* position in analyze_image
    image_url,      \* parameter image_url
    response_text,  \* message.content[0].text, the classifier's reply
    analysis,       \* what analyze_image did: [raised, val]
    \* ---- fenced / unfenced parsing ---------------------------------------
    f_pc,           \* position of the two _parse_response calls
    f_json,         \* the JSON object text J
    f_fenced,       \* J wrapped in code-fence markup
    f_plain_result, \* _parse_response(J)
    f_fenced_result,\* _parse_response(fenced J)
    \* ---- analyze_batch ---------------------------------------------------
    image_urls,     \* parameter image_urls
    concurrency,    \* parameter concurrency
    semaphore,      \* the value of asyncio.Semaphore(concurrency)
    t_pc,           \* position of each analyze_with_limit task
    t_input,        \* what the outside world answers to each task's call
    t_result,       \* the value each task returned
    completed,      \* the tasks in the order they completed
    b_pc,           \* position of analyze_batch
    b_result,       \* the list analyze_batch returned
    \* ---- _aggregate_vibes (one call) -------------------------------------
    g_pc,           \* position of _aggregate_vibes
    g_analyses,     \* parameter analyses
    g_summary,      \* what _aggregate_vibes did: [raised, val]
    \* ---- scout_location --------------------------------------------------
    s_pc,           \* position in scout_location
    analyze_images, \* parameter analyze_images
    scrape_result,  \* local "scrape_result": what scrape_location did
    thumbnail_urls, \* local "thumbnail_urls"
    analyses,       \* local "analyses"
    vibe_summary,   \* local "vibe_summary"
    report,         \* the report returned (meaningful when s_pc = "returned")
    calls           \* the components invoked, in order, with their arguments

scrapeVars == <<max_retries, max_items, pc, attempt, browser, playwright,
                open_browsers, open_drivers, exc, page_links, location_name,
                media_items, result, sleeps, closes, outcomes>>
scoreVars  == <<a_pc, image_url, response_text, analysis>>
fenceVars  == <<f_pc, f_json, f_fenced, f_plain_result, f_fenced_result>>
batchVars  == <<image_urls, concurrency, semaphore, t_pc, t_input, t_result,
                completed, b_pc, b_result>>
aggVars    == <<g_pc, g_analyses, g_summary>>
scoutVars  == <<s_pc, analyze_images, scrape_result, thumbnail_urls, analyses,
                vibe_summary, report, calls>>
vars == <<scrapeVars, scoreVars, fenceVars, batchVars, aggVars, scoutVars>>

(***************************************************************************)
(* Bounds of the model.                                                    *)
(***************************************************************************)
MaxRetries == 3        \* max_retries ranges over 0..MaxRetries
MaxItems == 2          \* max_items ranges over 1..MaxItems
MaxUrls == 3           \* analyze_batch gets 0..MaxUrls image URLs
MaxConcurrency == 2    \* concurrency ranges over 1..MaxConcurrency
MaxScores == 3         \* _aggregate_vibes gets 0..MaxScores scores
MaxPosts == 3          \* max_posts ranges over 1..MaxPosts
MaxLinks == 5          \* a page holds 0..MaxLinks post links

\* Python's None, where a string is expected
None == "<None>"

Min(a, b) == IF a < b THEN a ELSE b
Max(a, b) == IF a > b THEN a ELSE b

(***************************************************************************)
(*                 SCRAPER: _extract_media_from_page                       *)
(***************************************************************************)
\* A post link of the page.  href: "none" (no href attribute), "nomatch"
\* (no /p/<shortcode> in it) or "post"; thumb: 0 when the link holds no img or
\* the img has no src, else the id of the thumbnail URL; raises: "no", or the
\* call that raises while the link is processed ("href": get_attribute("href"),
\* "img": query_selector("img")).
Link(h, sc, th, vid, r) ==
    [href |-> h, shortcode |-> sc, thumb |-> th, video |-> vid, raises |-> r]

MediaItem(link) ==
    [shortcode |-> link.shortcode,
     thumbnail_url |-> link.thumb,
     media_type |-> IF link.video THEN "video" ELSE "image"]

\* One iteration of "for link in post_links[:max_items * 2]" on the state
\* st = [items, seen, stop].
ExtractStep(st, link, maxItems) ==
    IF st.stop \/ Len(st.items) >= maxItems
      THEN [st EXCEPT !.stop = TRUE]                          \* break
    ELSE IF link.raises = "href" THEN st                       \* except: continue
    ELSE IF link.href # "post" THEN st                         \* continue
    ELSE IF link.shortcode \in st.seen THEN st                 \* continue
    ELSE IF link.raises = "img"
      THEN [st EXCEPT !.seen = @ \cup {link.shortcode}]        \* except: continue
    ELSE [st EXCEPT !.seen = @ \cup {link.shortcode},
                    !.items = Append(@, MediaItem(link))]

\* A loop over every link of the page, not only the first max_items * 2
RECURSIVE ExtractLoopAll(_, _, _, _)
ExtractLoopAll(st, links, i, maxItems) ==
    IF i > Len(links) THEN st
    ELSE ExtractLoopAll(ExtractStep(st, links[i], maxItems), links, i + 1, maxItems)

RECURSIVE ExtractLoop(_, _, _, _)
ExtractLoop(st, links, i, maxItems) ==
    IF i > Min(Len(links), 2 * maxItems) THEN st
    ELSE ExtractLoop(ExtractStep(st, links[i], maxItems), links, i + 1, maxItems)

ExtractMedia(links, maxItems) ==
    ExtractLoop([items |-> <<>>, seen |-> {}, stop |-> FALSE], links, 1, maxItems).items

\* The pages the browser may show.
Pages ==
    { <<>>,
      << Link("none", 0, 0, FALSE, "no"), Link("nomatch", 0, 0, FALSE, "no") >>,
      << Link("post", 1, 11, FALSE, "no") >>,
      << Link("post", 1, 0, TRUE, "no"), Link("post", 1, 11, FALSE, "no"),
         Link("post", 2, 12, FALSE, "img"), Link("post", 2, 12, FALSE, "no"),
         Link("post", 3, 13, TRUE, "href"), Link("post", 3, 13, TRUE, "no") >> }

LocationNames == {None, "Club"}

(***************************************************************************)
(*                     SCRAPER: scrape_location                            *)
(***************************************************************************)
ScrapeResult(name, items, ok, err) ==
    [location_name |-> name, media_items |-> items, success |-> ok, error |-> err]

NoResult == ScrapeResult(None, <<>>, FALSE, "<not returned>")

\* A loop that runs one value too far
HasNextAttemptOneMore == attempt <= max_retries

\* "for attempt in range(self.max_retries)": is there a next value?
HasNextAttempt == attempt < max_retries

\* A last-attempt test that is off by one
IsLastAttemptOffByOne == attempt = max_retries

\* "if attempt == self.max_retries - 1"
IsLastAttempt == attempt = max_retries - 1

\* "await asyncio.sleep(30 * (attempt + 1))"
RateLimitBackoff(a) == 30 * (a + 1)

\* "await asyncio.sleep(5 * (attempt + 1))"
ErrorBackoff(a) == 5 * (a + 1)

\* error="Max retries exceeded"
ExhaustedError == "Max retries exceeded"

\* An exception raised inside the try block: control goes to
\* "except Exception as e" and the attempt has ended with that error.
Raise(msg) ==
    /\ pc' = "except"
    /\ exc' = msg
    /\ outcomes' = Append(outcomes, msg)

ScrapeInit ==
    /\ max_retries \in 0..MaxRetries
    /\ max_items \in 1..MaxItems
    /\ pc = "loop"
    /\ attempt = 0
    /\ browser = 0
    /\ playwright = 0
    /\ open_browsers = {}
    /\ open_drivers = {}
    /\ exc = None
    /\ page_links = <<>>
    /\ location_name = None
    /\ media_items = <<>>
    /\ result = NoResult
    /\ sleeps = <<>>
    /\ closes = <<>>
    /\ outcomes = <<>>

ScrapeIdle ==
    /\ max_retries = 0
    /\ max_items = 1
    /\ pc = "idle"
    /\ attempt = 0
    /\ browser = 0
    /\ playwright = 0
    /\ open_browsers = {}
    /\ open_drivers = {}
    /\ exc = None
    /\ page_links = <<>>
    /\ location_name = None
    /\ media_items = <<>>
    /\ result = NoResult
    /\ sleeps = <<>>
    /\ closes = <<>>
    /\ outcomes = <<>>

\* The loop head takes the next value of range(max_retries).
NextAttempt ==
    /\ pc = "loop"
    /\ HasNextAttempt
    /\ pc' = "setup"
    /\ UNCHANGED <<max_retries, max_items, attempt, browser, playwright,
                   open_browsers, open_drivers, exc, page_links, location_name,
                   media_items, result, sleeps, closes, outcomes>>
    /\ UNCHANGED <<scoreVars, fenceVars, batchVars, aggVars, scoutVars>>

\* The loop is exhausted: the return after the loop.
Exhausted ==
    /\ pc = "loop"
    /\ ~HasNextAttempt
    /\ pc' = "returned"
    /\ result' = ScrapeResult(None, <<>>, FALSE, ExhaustedError)
    /\ UNCHANGED <<max_retries, max_items, attempt, browser, playwright,
                   open_browsers, open_drivers, exc, page_links, location_name,
                   media_items, sleeps, closes, outcomes>>
    /\ UNCHANGED <<scoreVars, fenceVars, batchVars, aggVars, scoutVars>>

\* browser, playwright = await self._setup_browser()
\* The driver is started first, then the browser is launched; the two locals
\* are assigned only when both calls returned.
SetupBrowser ==
    /\ pc = "setup"
    /\ \/ /\ Raise("LaunchError")
          /\ UNCHANGED <<browser, playwright, open_browsers, open_drivers>>
       \/ /\ open_drivers' = open_drivers \cup {attempt + 1}
          /\ Raise("LaunchError")
          /\ UNCHANGED <<browser, playwright, open_browsers>>
       \/ /\ open_drivers' = open_drivers \cup {attempt + 1}
          /\ open_browsers' = open_browsers \cup {attempt + 1}
          /\ browser' = attempt + 1
          /\ playwright' = attempt + 1
          /\ pc' = "context"
          /\ UNCHANGED <<exc, outcomes>>
    /\ UNCHANGED <<max_retries, max_items, attempt, page_links, location_name,
                   media_items, result, sleeps, closes>>
    /\ UNCHANGED <<scoreVars, fenceVars, batchVars, aggVars, scoutVars>>

\* context = await self._create_stealth_context(browser)
\* page = await context.new_page(); then the jitter sleep
CreateContext ==
    /\ pc = "context"
    /\ \/ Raise("Timeout")
       \/ /\ pc' = "goto"
          /\ UNCHANGED <<exc, outcomes>>
    /\ UNCHANGED <<max_retries, max_items, attempt, browser, playwright,
                   open_browsers, open_drivers, page_links, location_name,
                   media_items, result, sleeps, closes>>
    /\ UNCHANGED <<scoreVars, fenceVars, batchVars, aggVars, scoutVars>>

\* response = await page.goto(...) raises (timeout, transport failure)
NavigateRaises ==
    /\ pc = "goto"
    /\ Raise("Timeout")
    /\ UNCHANGED <<max_retries, max_items, attempt, browser, playwright,
                   open_browsers, open_drivers, page_links, location_name,
                   media_items, result, sleeps, closes>>
    /\ UNCHANGED <<scoreVars, fenceVars, batchVars, aggVars, scoutVars>>

\* response.status == 429: sleep 30 * (attempt + 1), then "continue"
RateLimited ==
    /\ pc = "goto"
    /\ sleeps' = Append(sleeps, <<attempt, RateLimitBackoff(attempt)>>)
    /\ outcomes' = Append(outcomes, "429")
    /\ attempt' = attempt + 1
    /\ pc' = "loop"
    /\ UNCHANGED <<max_retries, max_items, browser, playwright, open_browsers,
                   open_drivers, exc, page_links, location_name, media_items,
                   result, closes>>
    /\ UNCHANGED <<scoreVars, fenceVars, batchVars, aggVars, scoutVars>>

\* response.status is neither 429 nor 200: raise Exception(f"HTTP {status}")
BadStatus ==
    /\ pc = "goto"
    /\ Raise("HTTP 500")
    /\ UNCHANGED <<max_retries, max_items, attempt, browser, playwright,
                   open_browsers, open_drivers, page_links, location_name,
                   media_items, result, sleeps, closes>>
    /\ UNCHANGED <<scoreVars, fenceVars, batchVars, aggVars, scoutVars>>

\* response is None or its status is 200: the page is loaded
PageLoaded ==
    /\ pc = "goto"
    /\ pc' = "login"
    /\ UNCHANGED <<max_retries, max_items, attempt, browser, playwright,
                   open_browsers, open_drivers, exc, page_links, location_name,
                   media_items, result, sleeps, closes, outcomes>>
    /\ UNCHANGED <<scoreVars, fenceVars, batchVars, aggVars, scoutVars>>

\* login_wall = await page.query_selector('input[name="username"]'), then
\* location_name = await self._get_location_name(page), which never raises
LoginCheck ==
    /\ pc = "login"
    /\ \/ /\ Raise("Timeout")
          /\ UNCHANGED location_name
       \/ /\ Raise("Login required - Instagram blocking anonymous scraping")
          /\ UNCHANGED location_name
       \/ /\ \E n \in LocationNames : location_name' = n
          /\ pc' = "extract"
          /\ UNCHANGED <<exc, outcomes>>
    /\ UNCHANGED <<max_retries, max_items, attempt, browser, playwright,
                   open_browsers, open_drivers, page_links, media_items,
                   result, sleeps, closes>>
    /\ UNCHANGED <<scoreVars, fenceVars, batchVars, aggVars, scoutVars>>

\* media_items = await self._extract_media_from_page(page, max_items)
\* wait_for_timeout and query_selector_all are outside its try block, so they
\* may raise; page_links is what query_selector_all returned.
Extract ==
    /\ pc = "extract"
    /\ \/ /\ Raise("Timeout")
          /\ UNCHANGED <<page_links, media_items>>
       \/ /\ \E p \in Pages : page_links' = p
          /\ media_items' = ExtractMedia(page_links', max_items)
          /\ pc' = IF media_items' = <<>> THEN "scroll" ELSE "close"
          /\ UNCHANGED <<exc, outcomes>>
    /\ UNCHANGED <<max_retries, max_items, attempt, browser, playwright,
                   open_browsers, open_drivers, location_name,
                   result, sleeps, closes>>
    /\ UNCHANGED <<scoreVars, fenceVars, batchVars, aggVars, scoutVars>>

\* if not media_items: scroll to the bottom, wait, extract once more
ScrollAndExtract ==
    /\ pc = "scroll"
    /\ \/ /\ Raise("Timeout")
          /\ UNCHANGED <<page_links, media_items>>
       \/ /\ \E p \in Pages : page_links' = p
          /\ media_items' = ExtractMedia(page_links', max_items)
          /\ pc' = "close"
          /\ UNCHANGED <<exc, outcomes>>
    /\ UNCHANGED <<max_retries, max_items, attempt, browser, playwright,
                   open_browsers, open_drivers, location_name, result, sleeps,
                   closes>>
    /\ UNCHANGED <<scoreVars, fenceVars, batchVars, aggVars, scoutVars>>

\* await browser.close() of the try block
CloseBrowser ==
    /\ pc = "close"
    /\ closes' = Append(closes, <<attempt, "browser", browser>>)
    /\ \/ /\ Raise("CloseError")
          /\ UNCHANGED open_browsers
       \/ /\ open_browsers' = open_browsers \ {browser}
          /\ pc' = "stop"
          /\ UNCHANGED <<exc, outcomes>>
    /\ UNCHANGED <<max_retries, max_items, attempt, browser, playwright,
                   open_drivers, page_links, location_name, media_items,
                   result, sleeps>>
    /\ UNCHANGED <<scoreVars, fenceVars, batchVars, aggVars, scoutVars>>

\* await playwright.stop() of the try block, then return ScrapeResult(success=True)
StopAndReturn ==
    /\ pc = "stop"
    /\ closes' = Append(closes, <<attempt, "driver", playwright>>)
    /\ \/ /\ Raise("CloseError")
          /\ UNCHANGED <<open_drivers, result>>
       \/ /\ open_drivers' = open_drivers \ {playwright}
          /\ result' = ScrapeResult(location_name, media_items, TRUE, None)
          /\ outcomes' = Append(outcomes, "ok")
          /\ pc' = "returned"
          /\ UNCHANGED exc
    /\ UNCHANGED <<max_retries, max_items, attempt, browser, playwright,
                   open_browsers, page_links, location_name, media_items,
                   sleeps>>
    /\ UNCHANGED <<scoreVars, fenceVars, batchVars, aggVars, scoutVars>>

\* except: "if browser: await browser.close()"; a raise here leaves the function
HandlerClose ==
    /\ pc = "except"
    /\ IF browser = 0
         THEN /\ pc' = "except_stop"
              /\ UNCHANGED <<open_browsers, closes>>
         ELSE /\ closes' = Append(closes, <<attempt, "browser", browser>>)
              /\ \/ /\ pc' = "raised"
                    /\ UNCHANGED open_browsers
                 \/ /\ open_browsers' = open_browsers \ {browser}
                    /\ pc' = "except_stop"
    /\ UNCHANGED <<max_retries, max_items, attempt, browser, playwright,
                   open_drivers, exc, page_links, location_name, media_items,
                   result, sleeps, outcomes>>
    /\ UNCHANGED <<scoreVars, fenceVars, batchVars, aggVars, scoutVars>>

\* except: "if playwright: await playwright.stop()"
HandlerStop ==
    /\ pc = "except_stop"
    /\ IF playwright = 0
         THEN /\ pc' = "except_end"
              /\ UNCHANGED <<open_drivers, closes>>
         ELSE /\ closes' = Append(closes, <<attempt, "driver", playwright>>)
              /\ \/ /\ pc' = "raised"
                    /\ UNCHANGED open_drivers
                 \/ /\ open_drivers' = open_drivers \ {playwright}
                    /\ pc' = "except_end"
    /\ UNCHANGED <<max_retries, max_items, attempt, browser, playwright,
                   open_browsers, exc, page_links, location_name, media_items,
                   result, sleeps, outcomes>>
    /\ UNCHANGED <<scoreVars, fenceVars, batchVars, aggVars, scoutVars>>

\* except: the last attempt returns the failure carrying str(e)
HandlerReturn ==
    /\ pc = "except_end"
    /\ IsLastAttempt
    /\ result' = ScrapeResult(None, <<>>, FALSE, exc)
    /\ pc' = "returned"
    /\ UNCHANGED <<max_retries, max_items, attempt, browser, playwright,
                   open_browsers, open_drivers, exc, page_links, location_name,
                   media_items, sleeps, closes, outcomes>>
    /\ UNCHANGED <<scoreVars, fenceVars, batchVars, aggVars, scoutVars>>

\* except: any other attempt sleeps 5 * (attempt + 1) and the loop goes on
HandlerRetry ==
    /\ pc = "except_end"
    /\ ~IsLastAttempt
    /\ sleeps' = Append(sleeps, <<attempt, ErrorBackoff(attempt)>>)
    /\ attempt' = attempt + 1
    /\ pc' = "loop"
    /\ UNCHANGED <<max_retries, max_items, browser, playwright, open_browsers,
                   open_drivers, exc, page_links, location_name, media_items,
                   result, closes, outcomes>>
    /\ UNCHANGED <<scoreVars, fenceVars, batchVars, aggVars, scoutVars>>

ScrapeNext ==
    \/ NextAttempt \/ Exhausted \/ SetupBrowser \/ CreateContext
    \/ NavigateRaises \/ RateLimited \/ BadStatus \/ PageLoaded
    \/ LoginCheck \/ Extract \/ ScrollAndExtract \/ CloseBrowser
    \/ StopAndReturn \/ HandlerClose \/ HandlerStop \/ HandlerReturn
    \/ HandlerRetry

(***************************************************************************)
(*        SCRAPER: one call of _extract_media_from_page on a page          *)
(***************************************************************************)
\* The kinds of link a page is made of
ExtractLinks ==
    { Link("none", 0, 0, FALSE, "no"),
      Link("nomatch", 0, 0, FALSE, "no"),
      Link("post", 1, 11, FALSE, "no"),
      Link("post", 1, 0, TRUE, "no"),
      Link("post", 2, 12, FALSE, "no"),
      Link("post", 2, 12, FALSE, "img"),
      Link("post", 1, 11, FALSE, "href") }

\* post_links = await page.query_selector_all('a[href*="/p/"]')
PostLinks == UNION { [1..n -> ExtractLinks] : n \in 0..MaxLinks }

ExtractInit ==
    /\ max_retries = 0
    /\ max_items \in 1..MaxItems
    /\ pc = "page"
    /\ attempt = 0
    /\ browser = 0
    /\ playwright = 0
    /\ open_browsers = {}
    /\ open_drivers = {}
    /\ exc = None
    /\ page_links \in PostLinks
    /\ location_name = None
    /\ media_items = <<>>
    /\ result = NoResult
    /\ sleeps = <<>>
    /\ closes = <<>>
    /\ outcomes = <<>>

\* The loop over post_links[:max_items * 2] and "return media_items"
ExtractFromPage ==
    /\ pc = "page"
    /\ media_items' = ExtractMedia(page_links, max_items)
    /\ pc' = "extracted"
    /\ UNCHANGED <<max_retries, max_items, attempt, browser, playwright,
                   open_browsers, open_drivers, exc, page_links, location_name,
                   result, sleeps, closes, outcomes>>
    /\ UNCHANGED <<scoreVars, fenceVars, batchVars, aggVars, scoutVars>>

ExtractNext == ExtractFromPage

(***************************************************************************)
(*              SCORER: JSON values and the reply text                     *)
(***************************************************************************)
\* A JSON value as json.loads builds it.  Numbers are kept in hundredths
\* (n = 750 is 7.5); items are the elements of a list or the characters of a
\* string; s is the text of a string.
Value(type, num, str, its) == [t |-> type, n |-> num, s |-> str, items |-> its]
Missing      == Value("missing", 0, "", <<>>)   \* the key is absent
Null         == Value("null", 0, "", <<>>)
Num(x)       == Value("num", x, "", <<>>)
NaN          == Value("nan", 0, "", <<>>)       \* json.loads accepts NaN
Infinity     == Value("inf", 0, "", <<>>)       \* and Infinity
Str(text, chars)  == Value("str", 0, text, chars)       \* not a numeric literal
IntStr(x, chars)  == Value("intstr", x, "", chars)      \* "7"
FloatStr(x, chars) == Value("floatstr", x, "", chars)   \* "7.5"
List(its)    == Value("list", 0, "", its)
Object(fields) == [t |-> "object", n |-> 0, s |-> "", items |-> <<>>, f |-> fields]

\* A reply text is a sequence of tokens: the fence "```", white space, a word
\* (a language tag or prose), the whole text of a JSON value, or -- for an
\* object one of whose strings holds "```" -- the text before and after it.
Fence     == [k |-> "fence", w |-> "", v |-> Null]
Ws        == [k |-> "ws", w |-> "", v |-> Null]
Word(x)   == [k |-> "word", w |-> x, v |-> Null]
Json(val) == [k |-> "json", w |-> "", v |-> val]
JsonHead(val) == [k |-> "head", w |-> "", v |-> val]
JsonTail(val) == [k |-> "tail", w |-> "", v |-> val]

\* The text of an object whose description string holds "```".
TextWithFenceInside(obj) == <<JsonHead(obj), Fence, JsonTail(obj)>>

\* str.strip()
RECURSIVE LStrip(_)
LStrip(text) ==
    IF text # <<>> /\ Head(text).k = "ws" THEN LStrip(Tail(text)) ELSE text

RECURSIVE RStrip(_)
RStrip(text) ==
    IF text # <<>> /\ text[Len(text)].k = "ws"
      THEN RStrip(SubSeq(text, 1, Len(text) - 1)) ELSE text

Strip(text) == RStrip(LStrip(text))

\* text.startswith("```")
StartsWithFence(text) == text # <<>> /\ Head(text).k = "fence"

\* text.startswith("json")
StartsWithJson(text) == text # <<>> /\ Head(text).k = "word" /\ Head(text).w = "json"

\* text.split("```")[1], for a text that starts with "```": what lies between
\* the first fence and the next one (or the end)
RECURSIVE UpToFence(_)
UpToFence(text) ==
    IF text = <<>> \/ Head(text).k = "fence" THEN <<>>
    ELSE <<Head(text)>> \o UpToFence(Tail(text))

SplitFenceSecond(text) == UpToFence(Tail(text))

\* The outcome of a Python expression: exc = "" and a value, or the type of
\* the exception it raised.
Ok(val)      == [exc |-> "", v |-> val]
Raised(type) == [exc |-> type, v |-> Null]

\* json.loads(text)
JsonLoads(text) ==
    IF Len(text) = 1 /\ text[1].k = "json" THEN Ok(text[1].v)
    ELSE IF /\ Len(text) = 3
            /\ text[1].k = "head" /\ text[2].k = "fence" /\ text[3].k = "tail"
            /\ text[1].v = text[3].v
      THEN Ok(text[1].v)
    ELSE Raised("JSONDecodeError")

\* int() rounds toward zero
Trunc(x) == IF x >= 0 THEN x \div 100 ELSE -((-x) \div 100)

\* int(v)
PyInt(val) ==
    CASE val.t = "num"      -> Ok(Num(100 * Trunc(val.n)))
      [] val.t = "intstr"   -> Ok(Num(val.n))
      [] val.t \in {"floatstr", "str", "nan"} -> Raised("ValueError")
      [] val.t = "inf"      -> Raised("OverflowError")
      [] OTHER              -> Raised("TypeError")

\* float(v)
PyFloat(val) ==
    CASE val.t \in {"num", "intstr", "floatstr"} -> Ok(Num(val.n))
      [] val.t \in {"nan", "inf"} -> Ok(val)
      [] val.t = "str"      -> Raised("ValueError")
      [] OTHER              -> Raised("TypeError")

\* v[:4]
Slice4(val) ==
    IF val.t \in {"list", "str", "intstr", "floatstr"}
      THEN Ok(List(SubSeq(val.items, 1, Min(4, Len(val.items)))))
      ELSE Raised("TypeError")

\* data.get(key, default), for data an object
DataGet(data, key, default) ==
    IF data.f[key].t = "missing" THEN default ELSE data.f[key]

\* A level passed on without clamping
ClampLevelMissing(val) == val.n \div 100

\* max(1, min(10, x)), x a whole number in hundredths
ClampLevel(val) == Max(1, Min(10, val.n \div 100))

\* max(0.0, min(1.0, x)) in hundredths.  min(1.0, nan) is 1.0 (nan < 1.0 is
\* false), and so is min(1.0, inf).
ClampConfidence(val) ==
    IF val.t \in {"nan", "inf"} THEN 100 ELSE Max(0, Min(100, val.n))

(***************************************************************************)
(*                    SCORER: _parse_response                              *)
(***************************************************************************)
VibeAnalysis(url, energy, crowd, tags, desc, conf, ok, err) ==
    [image_url |-> url, energy_level |-> energy, crowd_level |-> crowd,
     vibe_tags |-> tags, description |-> desc, confidence |-> conf,
     success |-> ok, error |-> err]

\* The three degraded records share their values and differ in the
\* description and the error.
Degraded(url, desc, err) ==
    VibeAnalysis(url, 5, 5, <<"Unknown">>, desc, 0, FALSE, err)

\* What a call does: it returns val, or it raises exc.
Returns(val) == [raised |-> FALSE, exc |-> "", val |-> val]
Raises(type) == [raised |-> TRUE, exc |-> type, val |-> Degraded(0, "", type)]

\* An except clause that leaves TypeError out
ParseCaughtNoTypeError == {"JSONDecodeError", "KeyError"}

\* "except (json.JSONDecodeError, KeyError, TypeError) as e"
ParseCaught == {"JSONDecodeError", "KeyError", "TypeError"}

\* The cleaning of the reply: strip, take what follows the opening fence up to
\* the next fence, drop a leading "json", strip again.
CleanText(response) ==
    LET text == Strip(response) IN
    IF StartsWithFence(text)
      THEN LET inner == SplitFenceSecond(text) IN
           Strip(IF StartsWithJson(inner) THEN Tail(inner) ELSE inner)
      ELSE Strip(text)

\* The description is stored as it comes (no conversion).
DescriptionOf(val) == IF val.t = "null" THEN None ELSE val.s

\* The VibeAnalysis(...) call of the try block on the loaded data: the
\* arguments are evaluated in order, the first that raises decides.
BuildAnalysis(data, url) ==
    IF data.t # "object" THEN Raises("AttributeError")      \* data.get
    ELSE
    LET energy == PyInt(DataGet(data, "energy_level", Num(500)))
        crowd  == PyInt(DataGet(data, "crowd_level", Num(500)))
        tags   == Slice4(DataGet(data, "vibe_tags", List(<<>>)))
        desc   == DataGet(data, "description", Str("Unable to analyze", <<>>))
        conf   == PyFloat(DataGet(data, "confidence", Num(50)))
    IN  IF energy.exc # "" THEN Raises(energy.exc)
        ELSE IF crowd.exc # "" THEN Raises(crowd.exc)
        ELSE IF tags.exc # "" THEN Raises(tags.exc)
        ELSE IF conf.exc # "" THEN Raises(conf.exc)
        ELSE Returns(VibeAnalysis(url, ClampLevel(energy.v), ClampLevel(crowd.v),
                                  tags.v.items, DescriptionOf(desc),
                                  ClampConfidence(conf.v), TRUE, None))

\* "Parse error: {e}"
ParseError(type) == IF type = "JSONDecodeError" THEN "Parse error: JSONDecodeError"
                    ELSE IF type = "KeyError" THEN "Parse error: KeyError"
                    ELSE "Parse error: TypeError"

ParseResponse(response, url) ==
    LET loaded == JsonLoads(CleanText(response))
        built  == IF loaded.exc # "" THEN Raises(loaded.exc)
                  ELSE BuildAnalysis(loaded.v, url)
    IN  IF built.raised /\ built.exc \in ParseCaught
          THEN Returns(Degraded(url, "Failed to parse analysis", ParseError(built.exc)))
          ELSE built

(***************************************************************************)
(*                      SCORER: analyze_image                              *)
(***************************************************************************)
\* What the outside world answers to one analyze_image call: the image fetch
\* ("ok", "http_error": an httpx.HTTPError, "error": another exception), the
\* classifier call ("ok", "error") and the text of its reply.
Input(fetch, api, reply) == [fetch |-> fetch, api |-> api, reply |-> reply]

\* The try block of analyze_image.
AnalyzeBody(url, in) ==
    IF in.fetch = "http_error" THEN Raises("HTTPError")
    ELSE IF in.fetch = "error" THEN Raises("InvalidURL")
    ELSE IF in.api = "error" THEN Raises("APIError")
    ELSE ParseResponse(in.reply, url)

\* analyze_image without its "except Exception" clause
AnalyzeImageNoCatchAll(url, in) ==
    LET body == AnalyzeBody(url, in) IN
    IF body.raised /\ body.exc = "HTTPError"
      THEN Returns(Degraded(url, "Failed to fetch image", "HTTP error: HTTPError"))
      ELSE body

\* "except httpx.HTTPError", then "except Exception"
AnalyzeImage(url, in) ==
    LET body == AnalyzeBody(url, in) IN
    IF ~body.raised THEN body
    ELSE IF body.exc = "HTTPError"
      THEN Returns(Degraded(url, "Failed to fetch image", "HTTP error: HTTPError"))
    ELSE Returns(Degraded(url, "Analysis failed", body.exc))

\* The classifier replies of the model.
Obj(e, c, t, d, cf) ==
    Object([energy_level |-> e, crowd_level |-> c, vibe_tags |-> t,
            description |-> d, confidence |-> cf])

NestedObject == Value("object", 0, "", <<>>)

EnergyOptions ==
    { Missing, Num(700), Num(1200), Num(-300), Num(790), Num(0),
      IntStr(700, <<"7">>), FloatStr(750, <<"7", ".", "5">>),
      Str("high", <<"h", "i", "g", "h">>), Null, List(<<"7">>), NestedObject,
      NaN, Infinity }

CrowdOptions ==
    { Missing, Num(300), Num(1100), Str("packed", <<"p", "a", "c", "k", "e", "d">>),
      Null }

TagOptions ==
    { Missing, List(<<>>), List(<<"Techno", "Dark">>),
      List(<<"Techno", "Dark", "Hype", "Massive", "DJ Set", "Dancing">>),
      Str("Hype!", <<"H", "y", "p", "e", "!">>), Null, Num(300), NestedObject }

DescriptionOptions == { Missing, Str("A packed dance floor", <<>>), Null }

ConfidenceOptions ==
    { Missing, Num(90), Num(30), Num(150), Num(-20), FloatStr(80, <<"0", ".", "8">>),
      Str("high", <<"h", "i", "g", "h">>), Null, List(<<>>), NaN, Infinity }

Objects ==
    { Obj(e, c, t, d, cf) : e \in EnergyOptions, c \in CrowdOptions,
                            t \in TagOptions, d \in DescriptionOptions,
                            cf \in ConfidenceOptions }

GoodObject ==
    Obj(Num(700), Num(300), List(<<"Techno", "Dark">>),
        Str("A packed dance floor", <<>>), Num(90))

NonObjects == { List(<<"Techno">>), Num(700), Str("ok", <<"o", "k">>), Null }

\* Replies json.loads rejects: an empty reply, prose, prose around the JSON.
MalformedTexts ==
    { <<>>, <<Ws>>, <<Word("Sorry")>>,
      <<Word("Here"), Ws, Json(GoodObject)>>,
      <<Json(GoodObject), Ws, Word("Done")>>,
      <<JsonHead(GoodObject)>> }

\* J in code-fence markup: the opening fence, a language tag or none, a line
\* break, J, a line break, the closing fence.
LanguageTags == { <<>>, <<Word("json")>>, <<Word("JSON")>>, <<Word("javascript")>> }

FenceWrap(json, tag) == <<Fence>> \o tag \o <<Ws>> \o json \o <<Ws, Fence>>

ReplyTexts ==
    { <<Json(o)>> : o \in Objects }
      \cup { <<Json(x)>> : x \in NonObjects }
      \cup MalformedTexts
      \cup { FenceWrap(<<Json(GoodObject)>>, tag) : tag \in LanguageTags }
      \cup { TextWithFenceInside(GoodObject),
             <<Ws, Json(GoodObject), Ws>>,
             <<Fence, Ws, Word("json"), Ws, Json(GoodObject), Ws, Fence>> }

ImageUrls == {1, 2}

NoAnalysis == Raises("<not returned>")

\* response_text before the classifier has replied
NoReply == <<Word("<no reply>")>>

ScoreInit ==
    /\ a_pc = "start"
    /\ image_url \in ImageUrls
    /\ response_text = NoReply
    /\ analysis = NoAnalysis

ScoreIdle ==
    /\ a_pc = "idle"
    /\ image_url = 0
    /\ response_text = NoReply
    /\ analysis = NoAnalysis

\* await self._fetch_image_as_base64(image_url): the call is suspended
StartFetch ==
    /\ a_pc = "start"
    /\ a_pc' = "fetching"
    /\ UNCHANGED <<image_url, response_text, analysis>>
    /\ UNCHANGED <<scrapeVars, fenceVars, batchVars, aggVars, scoutVars>>

\* the fetch raises
FetchFails ==
    /\ a_pc = "fetching"
    /\ \E kind \in {"http_error", "error"} :
          analysis' = AnalyzeImage(image_url, Input(kind, "ok", <<>>))
    /\ a_pc' = "done"
    /\ UNCHANGED <<image_url, response_text>>
    /\ UNCHANGED <<scrapeVars, fenceVars, batchVars, aggVars, scoutVars>>

\* the fetch returns and self.client.messages.create (or message.content[0]) raises
ClassifierFails ==
    /\ a_pc = "fetching"
    /\ analysis' = AnalyzeImage(image_url, Input("ok", "error", <<>>))
    /\ a_pc' = "done"
    /\ UNCHANGED <<image_url, response_text>>
    /\ UNCHANGED <<scrapeVars, fenceVars, batchVars, aggVars, scoutVars>>

\* the fetch returns, the classifier replies, the reply is parsed
ClassifierReplies ==
    /\ a_pc = "fetching"
    /\ \E text \in ReplyTexts :
          /\ response_text' = text
          /\ analysis' = AnalyzeImage(image_url, Input("ok", "ok", text))
    /\ a_pc' = "done"
    /\ UNCHANGED image_url
    /\ UNCHANGED <<scrapeVars, fenceVars, batchVars, aggVars, scoutVars>>

ScoreNext == StartFetch \/ FetchFails \/ ClassifierFails \/ ClassifierReplies

(***************************************************************************)
(*      SCORER: _parse_response on a reply with and without fencing        *)
(***************************************************************************)
\* The JSON object texts J: objects without "```" and one whose description
\* holds "```".
FenceObjects ==
    { Obj(e, Num(300), t, Str("A packed dance floor", <<>>), cf) :
         e \in EnergyOptions, t \in {List(<<"Techno", "Dark">>), Null},
         cf \in {Num(90), Num(150), Missing} }

ObjectTexts ==
    { <<Json(o)>> : o \in FenceObjects } \cup { TextWithFenceInside(GoodObject) }

FenceInit ==
    /\ f_pc = "start"
    /\ f_json \in ObjectTexts
    /\ \E tag \in LanguageTags : f_fenced = FenceWrap(f_json, tag)
    /\ f_plain_result = NoAnalysis
    /\ f_fenced_result = NoAnalysis

FenceIdle ==
    /\ f_pc = "idle"
    /\ f_json = <<>>
    /\ f_fenced = <<>>
    /\ f_plain_result = NoAnalysis
    /\ f_fenced_result = NoAnalysis

ParsePlain ==
    /\ f_pc = "start"
    /\ f_plain_result' = ParseResponse(f_json, 1)
    /\ f_pc' = "plain_done"
    /\ UNCHANGED <<f_json, f_fenced, f_fenced_result>>
    /\ UNCHANGED <<scrapeVars, scoreVars, batchVars, aggVars, scoutVars>>

ParseFenced ==
    /\ f_pc = "plain_done"
    /\ f_fenced_result' = ParseResponse(f_fenced, 1)
    /\ f_pc' = "done"
    /\ UNCHANGED <<f_json, f_fenced, f_plain_result>>
    /\ UNCHANGED <<scrapeVars, scoreVars, batchVars, aggVars, scoutVars>>

FenceNext == ParsePlain \/ ParseFenced

(***************************************************************************)
(*                 BATCH SCHEDULER: analyze_batch                          *)
(***************************************************************************)
\* The answers of the outside world to the calls of a batch.
BatchInputs ==
    { Input("http_error", "ok", <<>>),
      Input("ok", "error", <<>>),
      Input("ok", "ok", <<Json(GoodObject)>>),
      Input("ok", "ok", <<Word("Sorry")>>),
      Input("ok", "ok", <<Json(Obj(Null, Num(300), List(<<"Techno">>), Missing,
                                   Num(90)))>>),
      Input("ok", "ok", <<Json(Obj(Str("high", <<"h", "i", "g", "h">>), Num(300),
                                   List(<<"Techno">>), Missing, Num(90)))>>) }

\* The URLs a batch is given
BatchUrls == { 10 + i : i \in 1..MaxUrls }

\* What "await self.analyze_image(url)" yields for each URL and each behaviour
\* of the fetch and of the classifier
BatchAnalyses == [u \in BatchUrls, in \in BatchInputs |-> AnalyzeImage(u, in)]

NoInput == Input("none", "none", <<>>)

Tasks == 1..Len(image_urls)

BatchInit ==
    /\ \E n \in 0..MaxUrls : image_urls = [i \in 1..n |-> 10 + i]
    /\ concurrency \in 1..MaxConcurrency
    /\ semaphore = 0
    /\ t_pc = [i \in Tasks |-> "none"]
    /\ t_input = [i \in Tasks |-> NoInput]
    /\ t_result = [i \in Tasks |-> NoAnalysis.val]
    /\ completed = <<>>
    /\ b_pc = "start"
    /\ b_result = <<>>

BatchIdle ==
    /\ image_urls = <<>>
    /\ concurrency = 1
    /\ semaphore = 0
    /\ t_pc = <<>>
    /\ t_input = <<>>
    /\ t_result = <<>>
    /\ completed = <<>>
    /\ b_pc = "idle"
    /\ b_result = <<>>

\* No task is inside the synchronous classifier call: the event loop is free
\* to run the step of a task
LoopFree == \A j \in Tasks : t_pc[j] # "classifying"

\* semaphore = asyncio.Semaphore(concurrency)
\* tasks = [analyze_with_limit(url) for url in image_urls]; gather starts them
CreateTasks ==
    /\ b_pc = "start"
    /\ semaphore' = concurrency
    /\ t_pc' = [i \in Tasks |-> "waiting"]
    /\ b_pc' = "gathering"
    /\ UNCHANGED <<image_urls, concurrency, t_input, t_result, completed, b_result>>
    /\ UNCHANGED <<scrapeVars, scoreVars, fenceVars, aggVars, scoutVars>>

\* "async with semaphore" that admits a task although no slot is free
AcquireNoGate(i) ==
    /\ b_pc = "gathering"
    /\ LoopFree
    /\ t_pc[i] = "waiting"
    /\ semaphore' = semaphore - 1
    /\ t_pc' = [t_pc EXCEPT ![i] = "fetching"]
    /\ UNCHANGED <<image_urls, concurrency, t_input, t_result, completed, b_pc,
                   b_result>>
    /\ UNCHANGED <<scrapeVars, scoreVars, fenceVars, aggVars, scoutVars>>

\* "async with semaphore": the task takes a slot and runs analyze_image up to
\* its await of the image fetch
Acquire(i) ==
    /\ b_pc = "gathering"
    /\ LoopFree
    /\ t_pc[i] = "waiting"
    /\ semaphore > 0
    /\ semaphore' = semaphore - 1
    /\ t_pc' = [t_pc EXCEPT ![i] = "fetching"]
    /\ UNCHANGED <<image_urls, concurrency, t_input, t_result, completed, b_pc,
                   b_result>>
    /\ UNCHANGED <<scrapeVars, scoreVars, fenceVars, aggVars, scoutVars>>

\* "await self._fetch_image_as_base64(image_url)" of task i ends.  A failed
\* fetch ends analyze_image with the degraded record; after a successful one
\* the task enters "self.client.messages.create(...)".
FetchDone(i) ==
    /\ b_pc = "gathering"
    /\ LoopFree
    /\ t_pc[i] = "fetching"
    /\ \/ /\ t_pc' = [t_pc EXCEPT ![i] = "classifying"]
          /\ UNCHANGED <<t_input, t_result, semaphore>>
       \/ \E in \in { x \in BatchInputs : x.fetch # "ok" } :
             LET r == BatchAnalyses[image_urls[i], in] IN
             /\ t_input' = [t_input EXCEPT ![i] = in]
             /\ t_result' = [t_result EXCEPT ![i] = r.val]
             /\ t_pc' = [t_pc EXCEPT ![i] = IF r.raised THEN "raised" ELSE "sleeping"]
             /\ semaphore' = IF r.raised THEN semaphore + 1 ELSE semaphore
    /\ UNCHANGED <<image_urls, concurrency, completed, b_pc, b_result>>
    /\ UNCHANGED <<scrapeVars, scoreVars, fenceVars, aggVars, scoutVars>>

\* A task that gives its slot back as soon as analyze_image has returned,
\* before the pacing delay
AnalyzeDoneReleasing(i) ==
    /\ b_pc = "gathering"
    /\ t_pc[i] = "classifying"
    /\ \E in \in { x \in BatchInputs : x.fetch = "ok" } :
          LET r == BatchAnalyses[image_urls[i], in] IN
          /\ t_input' = [t_input EXCEPT ![i] = in]
          /\ t_result' = [t_result EXCEPT ![i] = r.val]
          /\ t_pc' = [t_pc EXCEPT ![i] = IF r.raised THEN "raised" ELSE "sleeping"]
          /\ semaphore' = semaphore + 1
    /\ UNCHANGED <<image_urls, concurrency, completed, b_pc, b_result>>
    /\ UNCHANGED <<scrapeVars, scoreVars, fenceVars, aggVars, scoutVars>>

\* The classifier call of task i ends and the rest of analyze_image (the
\* parsing) runs up to "await asyncio.sleep(0.5)".  The call is a call of
\* the synchronous client: it is not awaited, and from its start to its end
\* the event loop runs no other task.  A raise of analyze_image would leave
\* the "async with" block, releasing the slot.
AnalyzeDone(i) ==
    /\ b_pc = "gathering"
    /\ t_pc[i] = "classifying"
    /\ \E in \in { x \in BatchInputs : x.fetch = "ok" } :
          LET r == BatchAnalyses[image_urls[i], in] IN
          /\ t_input' = [t_input EXCEPT ![i] = in]
          /\ t_result' = [t_result EXCEPT ![i] = r.val]
          /\ t_pc' = [t_pc EXCEPT ![i] = IF r.raised THEN "raised" ELSE "sleeping"]
          /\ semaphore' = IF r.raised THEN semaphore + 1 ELSE semaphore
    /\ UNCHANGED <<image_urls, concurrency, completed, b_pc, b_result>>
    /\ UNCHANGED <<scrapeVars, scoreVars, fenceVars, aggVars, scoutVars>>

\* The pacing delay of task i has elapsed: "return result" leaves the
\* "async with" block and the slot is released.
SleepDone(i) ==
    /\ b_pc = "gathering"
    /\ LoopFree
    /\ t_pc[i] = "sleeping"
    /\ t_pc' = [t_pc EXCEPT ![i] = "done"]
    /\ semaphore' = semaphore + 1
    /\ completed' = Append(completed, i)
    /\ UNCHANGED <<image_urls, concurrency, t_input, t_result, b_pc, b_result>>
    /\ UNCHANGED <<scrapeVars, scoreVars, fenceVars, aggVars, scoutVars>>

\* Results collected in the order the tasks completed
GatherByCompletion == [i \in Tasks |-> t_result[completed[i]]]

\* asyncio.gather(*tasks): the results in the order of the tasks
GatherResults == [i \in Tasks |-> t_result[i]]

\* gather that returns as soon as one task has returned
GatherFirstCompleted ==
    /\ b_pc = "gathering"
    /\ LoopFree
    /\ \/ Tasks = {}
       \/ \E i \in Tasks : t_pc[i] = "done"
    /\ b_pc' = "returned"
    /\ b_result' = GatherResults
    /\ UNCHANGED <<image_urls, concurrency, semaphore, t_pc, t_input, t_result,
                   completed>>
    /\ UNCHANGED <<scrapeVars, scoreVars, fenceVars, aggVars, scoutVars>>

\* "return await asyncio.gather(*tasks)": gather returns when every task has
\* returned, and raises as soon as one task has raised.
Gather ==
    /\ b_pc = "gathering"
    /\ LoopFree
    /\ \/ \A i \in Tasks : t_pc[i] = "done"
       \/ \E i \in Tasks : t_pc[i] = "raised"
    /\ IF \E i \in Tasks : t_pc[i] = "raised"
         THEN /\ b_pc' = "raised"
              /\ UNCHANGED b_result
         ELSE /\ b_pc' = "returned"
              /\ b_result' = GatherResults
    /\ UNCHANGED <<image_urls, concurrency, semaphore, t_pc, t_input, t_result,
                   completed>>
    /\ UNCHANGED <<scrapeVars, scoreVars, fenceVars, aggVars, scoutVars>>

BatchNext ==
    \/ CreateTasks
    \/ \E i \in Tasks : Acquire(i)
    \/ \E i \in Tasks : FetchDone(i)
    \/ \E i \in Tasks : AnalyzeDone(i)
    \/ \E i \in Tasks : SleepDone(i)
    \/ Gather

(***************************************************************************)
(*                    AGGREGATOR: _aggregate_vibes                         *)
(*  avg_energy and avg_crowd are kept in tenths (73 is 7.3).               *)
(***************************************************************************)
\* A tag that is a JSON list or object: _parse_response passes the elements
\* of vibe_tags on scores they are, and such a tag cannot be a dict key.
UnhashableTag == "<unhashable>"

\* The filter with the threshold itself let through
ContributesAtThreshold(a) == a.success /\ a.confidence >= 30

\* "a.success and a.confidence > 0.3"
Contributes(a) == a.success /\ a.confidence > 30

\* successful = [a for a in analyses if a.success and a.confidence > 0.3]
Successful(scores) == SelectSeq(scores, Contributes)

\* sum(a.<field> for a in successful)
RECURSIVE SumOf(_, _)
SumOf(scores, field) ==
    IF scores = <<>> THEN 0 ELSE Head(scores)[field] + SumOf(Tail(scores), field)

\* round(sum / n, 1) in tenths: the nearest tenth, and the even one when the
\* mean lies halfway (the halfway means of up to 8 scores are quarters, which
\* a float holds exactly).
Round1(sum, n) ==
    LET q == (10 * sum) \div n
        r == (10 * sum) % n
    IN  IF 2 * r > n THEN q + 1
        ELSE IF 2 * r < n THEN q
        ELSE IF q % 2 = 0 THEN q ELSE q + 1

\* The tags of the contributing scores, in the order the two loops visit them
RECURSIVE TagsOf(_)
TagsOf(scores) ==
    IF scores = <<>> THEN <<>> ELSE Head(scores).vibe_tags \o TagsOf(Tail(scores))

\* tag_counts[tag] = tag_counts.get(tag, 0) + 1 on the dict
\* tc = [keys: the keys in insertion order, count: the value of each key]
CountTag(tc, tag) ==
    IF tag \in DOMAIN tc.count
      THEN [tc EXCEPT !.count[tag] = @ + 1]
      ELSE [keys |-> Append(tc.keys, tag), count |-> tc.count @@ (tag :> 1)]

RECURSIVE CountTags(_, _)
CountTags(tc, tags) ==
    IF tags = <<>> THEN tc ELSE CountTags(CountTag(tc, Head(tags)), Tail(tags))

EmptyDict == [keys |-> <<>>, count |-> <<>>]

\* An order of the sort in which, of two tags of equal count, the later one
\* comes first
StaysBeforeUnstable(a, b, count) == count[a] > count[b]

\* sorted(..., key=lambda t: tag_counts[t], reverse=True) is stable: a, which
\* stands before b in the dict, stays before b unless b's count is larger
StaysBefore(a, b, count) == count[a] >= count[b]

RECURSIVE InsertSorted(_, _, _)
InsertSorted(sorted, tag, count) ==
    IF sorted = <<>> THEN <<tag>>
    ELSE IF StaysBefore(Head(sorted), tag, count)
      THEN <<Head(sorted)>> \o InsertSorted(Tail(sorted), tag, count)
    ELSE <<tag>> \o sorted

RECURSIVE SortedKeys(_, _, _)
SortedKeys(sorted, keys, count) ==
    IF keys = <<>> THEN sorted
    ELSE SortedKeys(InsertSorted(sorted, Head(keys), count), Tail(keys), count)

\* sorted(tag_counts.keys(), key=..., reverse=True)[:4]
TopTags(tc) ==
    LET all == SortedKeys(<<>>, tc.keys, tc.count)
    IN  SubSeq(all, 1, Min(4, Len(all)))

\* The comparisons with the bounds taken strictly
StatusOfStrict(sumE, sumC, n) ==
    IF sumE > 7 * n /\ sumC > 7 * n THEN "LIVE"
    ELSE IF sumE > 5 * n \/ sumC > 5 * n THEN "warming_up"
    ELSE "dead"

\* "if avg_energy >= 7 and avg_crowd >= 7 ... elif ... else", on the means
\* sumE / n and sumC / n before rounding
StatusOf(sumE, sumC, n) ==
    IF sumE >= 7 * n /\ sumC >= 7 * n THEN "LIVE"
    ELSE IF sumE >= 5 * n \/ sumC >= 5 * n THEN "warming_up"
    ELSE "dead"

Summary(energy, crowd, tags, st, n) ==
    [avg_energy |-> energy, avg_crowd |-> crowd, top_vibe_tags |-> tags,
     status |-> st, sample_size |-> n]

\* The summary of no contributing score, with the neutral means left out
InsufficientDataZero == Summary(0, 0, <<"Unknown">>, "insufficient_data", 0)

\* The summary returned when no score contributes
InsufficientData == Summary(50, 50, <<"Unknown">>, "insufficient_data", 0)

Returned(val) == [raised |-> FALSE, exc |-> "", val |-> val]
Raising(type)  == [raised |-> TRUE, exc |-> type, val |-> InsufficientData]

AggregateVibes(scores) ==
    LET successful == Successful(scores)
        n      == Len(successful)
        sumE   == SumOf(successful, "energy_level")
        sumC   == SumOf(successful, "crowd_level")
        tags   == TagsOf(successful)
        tc     == CountTags(EmptyDict, tags)
        top    == TopTags(tc)
    IN  IF n = 0 THEN Returned(InsufficientData)
        ELSE IF \E i \in DOMAIN tags : tags[i] = UnhashableTag
          THEN Raising("TypeError")          \* tag_counts.get(tag, 0)
        ELSE Returned(Summary(Round1(sumE, n), Round1(sumC, n),
                              IF top = <<>> THEN <<"Unknown">> ELSE top,
                              StatusOf(sumE, sumC, n), n))

\* The scores _aggregate_vibes is given
AggScores ==
    { Degraded(11, "Analysis failed", "x"),
      VibeAnalysis(11, 8, 8, <<"Techno", "Dark">>, "d", 90, TRUE, None),
      VibeAnalysis(12, 8, 7, <<"Techno", "Hype">>, "d", 31, TRUE, None),
      VibeAnalysis(13, 6, 3, <<"Dark">>, "d", 90, TRUE, None),
      VibeAnalysis(11, 3, 2, <<>>, "d", 50, TRUE, None),
      VibeAnalysis(12, 10, 10, <<"Hype">>, "d", 30, TRUE, None),
      VibeAnalysis(13, 1, 9, <<"Latin", "Chill", "House", "VIP">>, "d", 100,
                   TRUE, None),
      VibeAnalysis(11, 9, 9, <<"Techno">>, "d", 90, FALSE, "x"),
      VibeAnalysis(12, 7, 7, <<UnhashableTag>>, "d", 90, TRUE, None) }

NoSummary == Raising("<not returned>")

AggregateInit ==
    /\ g_pc = "start"
    /\ g_analyses \in UNION { [1..n -> AggScores] : n \in 0..MaxScores }
    /\ g_summary = NoSummary

AggregateIdle ==
    /\ g_pc = "idle"
    /\ g_analyses = <<>>
    /\ g_summary = NoSummary

\* One call of _aggregate_vibes(analyses)
Aggregate ==
    /\ g_pc = "start"
    /\ g_summary' = AggregateVibes(g_analyses)
    /\ g_pc' = IF g_summary'.raised THEN "raised" ELSE "returned"
    /\ UNCHANGED g_analyses
    /\ UNCHANGED <<scrapeVars, scoreVars, fenceVars, batchVars, scoutVars>>

AggregateNext == Aggregate

(***************************************************************************)
(*                   ORCHESTRATOR: scout_location                          *)
(***************************************************************************)
\* What the fetch and the classifier may answer to the calls of a run: the
\* answers of BatchInputs, and a reply one of whose tags is a list
PipelineInputs ==
    BatchInputs \cup
    { Input("ok", "ok", <<Json(Obj(Num(700), Num(700), List(<<UnhashableTag>>),
                                   Missing, Num(90)))>>) }

\* The pages of the scraper, a page whose second post has no thumbnail, and
\* a page of two posts with thumbnails
ScoutPages ==
    Pages \cup
    { << Link("post", 1, 13, FALSE, "no"), Link("post", 2, 0, TRUE, "no"),
         Link("post", 3, 11, FALSE, "no"), Link("post", 4, 12, FALSE, "no") >>,
      << Link("post", 1, 12, FALSE, "no"), Link("post", 2, 11, TRUE, "no") >> }

\* What "await self.scraper.scrape_location(location_url, max_posts)" may do:
\* return a failure, return the media of a page, or raise (the release of
\* the session inside the except block is not guarded)
ScrapeOutcomes(max_posts) ==
    { Returned(ScrapeResult(None, <<>>, FALSE, e)) : e \in {ExhaustedError, "Timeout"} }
    \cup { Returned(ScrapeResult(nm, ExtractMedia(p, max_posts), TRUE, None)) :
              nm \in LocationNames, p \in ScoutPages }
    \cup { [raised |-> TRUE, exc |-> "CloseError", val |-> NoResult] }

NoScrape == [raised |-> TRUE, exc |-> "<not returned>", val |-> NoResult]

\* vibe_summary = None
SummaryNone == Summary(0, 0, <<>>, None, 0)

\* A key the report does not have
Absent == "<absent>"

Report(ks, ok, err, name, count, items, scores, summary, msg) ==
    [keys |-> ks, success |-> ok, error |-> err, location_name |-> name,
     post_count |-> count, posts |-> items, analyses |-> scores,
     vibe_summary |-> summary, message |-> msg]

NoReport == Report({}, FALSE, Absent, Absent, 0, <<>>, <<>>, SummaryNone, Absent)

\* The report that leaves the error of the scrape out
FailureReportNoError(res) ==
    Report({"success", "error", "location_url", "scraped_at"}, FALSE,
           None, Absent, 0, <<>>, <<>>, SummaryNone, Absent)

\* lines 74-79
FailureReport(res) ==
    Report({"success", "error", "location_url", "scraped_at"}, FALSE,
           res.error, Absent, 0, <<>>, <<>>, SummaryNone, Absent)

\* lines 84-92
EmptyReport(res) ==
    Report({"success", "location_url", "location_name", "post_count",
            "vibe_summary", "message", "scraped_at"}, TRUE,
           Absent, res.location_name, 0, <<>>, <<>>, SummaryNone,
           "No posts found at this location")

\* lines 120-137
FullReport(res, scores, summary) ==
    Report({"success", "location_url", "location_name", "post_count",
            "scraped_at", "posts", "analyses", "vibe_summary"}, TRUE,
           Absent, res.location_name, Len(res.media_items), res.media_items,
           scores, summary, Absent)

\* [item.thumbnail_url for item in media_items if item.thumbnail_url]
RECURSIVE ThumbnailUrls(_)
ThumbnailUrls(items) ==
    IF items = <<>> THEN <<>>
    ELSE IF Head(items).thumbnail_url # 0
      THEN <<Head(items).thumbnail_url>> \o ThumbnailUrls(Tail(items))
    ELSE ThumbnailUrls(Tail(items))

Call(fn, arg) == [fn |-> fn, arg |-> arg]

ScoutInit ==
    /\ s_pc = "scrape"
    /\ analyze_images \in BOOLEAN
    /\ scrape_result = NoScrape
    /\ thumbnail_urls = <<>>
    /\ analyses = <<>>
    /\ vibe_summary = SummaryNone
    /\ report = NoReport
    /\ calls = <<>>

ScoutIdle ==
    /\ s_pc = "idle"
    /\ analyze_images = TRUE
    /\ scrape_result = NoScrape
    /\ thumbnail_urls = <<>>
    /\ analyses = <<>>
    /\ vibe_summary = SummaryNone
    /\ report = NoReport
    /\ calls = <<>>

\* "scrape_result = await self.scraper.scrape_location(location_url, max_posts)"
ScrapeLocation ==
    /\ s_pc = "scrape"
    /\ \E max_posts \in 1..MaxPosts :
         /\ scrape_result' \in ScrapeOutcomes(max_posts)
         /\ calls' = Append(calls, Call("scrape_location", <<max_posts>>))
    /\ s_pc' = IF scrape_result'.raised THEN "raised" ELSE "scraped"
    /\ UNCHANGED <<analyze_images, thumbnail_urls, analyses, vibe_summary, report>>
    /\ UNCHANGED <<scrapeVars, scoreVars, fenceVars, batchVars, aggVars>>

\* "if not scrape_result.success: return {...}"
ReturnFailure ==
    /\ s_pc = "scraped"
    /\ ~scrape_result.val.success
    /\ report' = FailureReport(scrape_result.val)
    /\ s_pc' = "returned"
    /\ UNCHANGED <<analyze_images, scrape_result, thumbnail_urls, analyses,
                   vibe_summary, calls>>
    /\ UNCHANGED <<scrapeVars, scoreVars, fenceVars, batchVars, aggVars>>

\* "if not scrape_result.media_items: return {...}"
ReturnNoPosts ==
    /\ s_pc = "scraped"
    /\ scrape_result.val.success
    /\ scrape_result.val.media_items = <<>>
    /\ report' = EmptyReport(scrape_result.val)
    /\ s_pc' = "returned"
    /\ UNCHANGED <<analyze_images, scrape_result, thumbnail_urls, analyses,
                   vibe_summary, calls>>
    /\ UNCHANGED <<scrapeVars, scoreVars, fenceVars, batchVars, aggVars>>

\* "if thumbnail_urls:"
HasThumbnails(urls) == urls # <<>>

\* The test "if analyses" left out
HasAnalysesAlways(scores) == TRUE

\* "... if analyses else None"
HasAnalyses(scores) == scores # <<>>

\* Lines 115-151: the aggregation and the report, for the scores given
Finish(scores) ==
    LET summary == AggregateVibes(scores) IN
    IF HasAnalyses(scores)
      THEN /\ calls' = Append(calls, Call("_aggregate_vibes", scores))
           /\ IF summary.raised
                THEN /\ s_pc' = "raised"
                     /\ UNCHANGED <<vibe_summary, report>>
                ELSE /\ vibe_summary' = summary.val
                     /\ report' = FullReport(scrape_result.val, scores, summary.val)
                     /\ s_pc' = "returned"
      ELSE /\ vibe_summary' = SummaryNone
           /\ report' = FullReport(scrape_result.val, <<>>, SummaryNone)
           /\ s_pc' = "returned"
           /\ UNCHANGED calls

\* analyze_images is false: "analyses" stays empty, the report is assembled
SkipAnalysis ==
    /\ s_pc = "scraped"
    /\ scrape_result.val.success
    /\ scrape_result.val.media_items # <<>>
    /\ ~analyze_images
    /\ Finish(<<>>)
    /\ UNCHANGED <<analyze_images, scrape_result, thumbnail_urls, analyses>>
    /\ UNCHANGED <<scrapeVars, scoreVars, fenceVars, batchVars, aggVars>>

\* analyze_images is true and no media item has a thumbnail: the same
NoThumbnails ==
    /\ s_pc = "scraped"
    /\ scrape_result.val.success
    /\ scrape_result.val.media_items # <<>>
    /\ analyze_images
    /\ thumbnail_urls' = ThumbnailUrls(scrape_result.val.media_items)
    /\ ~HasThumbnails(thumbnail_urls')
    /\ Finish(<<>>)
    /\ UNCHANGED <<analyze_images, scrape_result, analyses>>
    /\ UNCHANGED <<scrapeVars, scoreVars, fenceVars, batchVars, aggVars>>

\* "analyses = await self.analyzer.analyze_batch(thumbnail_urls, concurrency=2)":
\* the call
StartBatch ==
    /\ s_pc = "scraped"
    /\ scrape_result.val.success
    /\ scrape_result.val.media_items # <<>>
    /\ analyze_images
    /\ thumbnail_urls' = ThumbnailUrls(scrape_result.val.media_items)
    /\ HasThumbnails(thumbnail_urls')
    /\ calls' = Append(calls, Call("analyze_batch", thumbnail_urls'))
    /\ s_pc' = "batch"
    /\ UNCHANGED <<analyze_images, scrape_result, analyses, vibe_summary, report>>
    /\ UNCHANGED <<scrapeVars, scoreVars, fenceVars, batchVars, aggVars>>

\* analyze_batch returns the score of each URL, in the order of the URLs;
\* then lines 108-151
BatchReturns ==
    /\ s_pc = "batch"
    /\ \E ins \in [DOMAIN thumbnail_urls -> PipelineInputs] :
          /\ analyses' = [i \in DOMAIN thumbnail_urls |->
                             AnalyzeImage(thumbnail_urls[i], ins[i]).val]
          /\ Finish(analyses')
    /\ UNCHANGED <<analyze_images, scrape_result, thumbnail_urls>>
    /\ UNCHANGED <<scrapeVars, scoreVars, fenceVars, batchVars, aggVars>>

ScoutNext ==
    \/ ScrapeLocation
    \/ ReturnFailure
    \/ ReturnNoPosts
    \/ SkipAnalysis
    \/ NoThumbnails
    \/ StartBatch
    \/ BatchReturns

(***************************************************************************)
(*                         Specifications                                  *)
(***************************************************************************)
\* scrape_location
Init == ScrapeInit /\ ScoreIdle /\ FenceIdle /\ BatchIdle /\ AggregateIdle /\ ScoutIdle
Next == ScrapeNext
Spec == Init /\ [][Next]_vars

\* one analyze_image call
InitScore == ScrapeIdle /\ ScoreInit /\ FenceIdle /\ BatchIdle /\ AggregateIdle /\ ScoutIdle
SpecScore == InitScore /\ [][ScoreNext]_vars

\* _parse_response on J and on J in code-fence markup
InitFence == ScrapeIdle /\ ScoreIdle /\ FenceInit /\ BatchIdle /\ AggregateIdle /\ ScoutIdle
SpecFence == InitFence /\ [][FenceNext]_vars

\* analyze_batch
InitBatch == ScrapeIdle /\ ScoreIdle /\ FenceIdle /\ BatchInit /\ AggregateIdle /\ ScoutIdle
SpecBatch == InitBatch /\ [][BatchNext]_vars

\* analyze_batch on the asyncio event loop: a task that is ready to run is
\* run, and every await of analyze_with_limit ends (the fetch and the
\* classifier call within their timeouts, the sleep after 0.5 s).
SpecBatchFair == InitBatch /\ [][BatchNext]_vars /\ WF_vars(BatchNext)

\* one _aggregate_vibes call
InitAggregate == ScrapeIdle /\ ScoreIdle /\ FenceIdle /\ BatchIdle /\ AggregateInit /\ ScoutIdle
SpecAggregate == InitAggregate /\ [][AggregateNext]_vars

\* scout_location
InitScout == ScrapeIdle /\ ScoreIdle /\ FenceIdle /\ BatchIdle /\ AggregateIdle /\ ScoutInit
SpecScout == InitScout /\ [][ScoutNext]_vars

\* one _extract_media_from_page call
InitExtract == ExtractInit /\ ScoreIdle /\ FenceIdle /\ BatchIdle /\ AggregateIdle /\ ScoutIdle
SpecExtract == InitExtract /\ [][ExtractNext]_vars

(***************************************************************************)
(*                     Properties of scrape_location                       *)
(***************************************************************************)
\* Every attempt that has ended ended without success.
AllAttemptsFailed == \A i \in DOMAIN outcomes : outcomes[i] # "ok"

\* The error texts of the attempts that raised, in order.
IsRaisedError(o) == o \notin {"ok", "429"}
RaisedErrors == SelectSeq(outcomes, IsRaisedError)

\* C1: every browser session an attempt opens is released before the attempt
\* returns or the next attempt begins: never two sessions open at once, and
\* none open once scrape_location has returned.
\* The 429 branch goes on to the next attempt without closing the browser.
C1_SessionsReleased ==
    /\ Cardinality(open_browsers) <= 1
    /\ pc = "returned" => open_browsers = {}

\* C2: scrape_location never raises to its caller, whatever the browser
\* capability does (a failure while closing the session included).
\* A raise of browser.close() or playwright.stop() inside the except block
\* is caught by nothing.
C2_NeverRaises == pc # "raised"

\* C3, as claimed: when every attempt ended without success, the result has
\* success = false and carries the error of the last attempt (for a last
\* attempt that was rate-limited: its own outcome, or else the error raised
\* last before it).
C3_CarriesLastError ==
    (pc = "returned" /\ outcomes # <<>> /\ AllAttemptsFailed) =>
        /\ ~result.success
        /\ RaisedErrors # <<>> =>
              result.error \in {outcomes[Len(outcomes)],
                                RaisedErrors[Len(RaisedErrors)]}

\* C3, amended: when every attempt ended without success and scrape_location
\* returns, the result has success = false; its error is the text of the
\* exception of the last attempt when that attempt raised, and
\* "Max retries exceeded" when the last attempt was rate-limited (or when there
\* was no attempt at all).
C3_LastErrorOrExhausted ==
    (pc = "returned" /\ AllAttemptsFailed) =>
        /\ ~result.success
        /\ result.error =
              IF outcomes = <<>> \/ outcomes[Len(outcomes)] = "429"
                THEN "Max retries exceeded"
                ELSE outcomes[Len(outcomes)]

\* C3's case: a raising attempt, a rate-limited one, and a last one that raises.
C3_Witness ==
    /\ pc = "returned"
    /\ outcomes = <<"Timeout", "429", "HTTP 500">>
    /\ result.error = "HTTP 500"

\* C4: when the navigation of every attempt answers 429, scrape_location makes
\* exactly max_retries attempts and then returns success = false, no media
\* item and a non-empty error.
C4_RateLimitedThroughout ==
    (pc = "returned" /\ \A i \in DOMAIN outcomes : outcomes[i] = "429") =>
        /\ Len(outcomes) = max_retries
        /\ ~result.success
        /\ result.media_items = <<>>
        /\ result.error \notin {None, ""}

\* C4's case: three attempts, each rate-limited, and the return.
C4_Witness ==
    /\ pc = "returned"
    /\ max_retries = 3
    /\ outcomes = <<"429", "429", "429">>
    /\ sleeps = <<<<0, 30>>, <<1, 60>>, <<2, 90>>>>

\* C5: an attempt that loaded the page (status 200, no login wall) and found no
\* post link, also after the scroll, returns success with no media item in
\* that same attempt: from the release of the session on, the attempt goes
\* straight to the successful return.
\* A raise of browser.close() or playwright.stop() in the try block sends the
\* attempt to the except block: it is retried or reported as a failure.
C5_EmptyExtractionSucceeds ==
    [][(pc \in {"close", "stop"} /\ media_items = <<>>) =>
          /\ attempt' = attempt
          /\ pc' \in {"stop", "returned"}
          /\ pc' = "returned" =>
                (result'.success /\ result'.media_items = <<>>)]_vars

(***************************************************************************)
(*               Properties of analyze_image and analyze_batch             *)
(***************************************************************************)
\* The call of a batch that gets anything but the well-formed reply fails.
FailedInput(in) ==
    in.fetch # "ok" \/ in.api # "ok" \/ in.reply # <<Json(GoodObject)>>

\* The score of the well-formed reply.
GoodAnalysis(url) ==
    VibeAnalysis(url, 7, 3, <<"Techno", "Dark">>, "A packed dance floor", 90,
                 TRUE, None)

\* A record with the degraded values and an error.
IsDegraded(r) ==
    /\ ~r.success
    /\ r.energy_level = 5
    /\ r.crowd_level = 5
    /\ r.vibe_tags = <<"Unknown">>
    /\ r.confidence = 0
    /\ r.error # None

\* C6: analyze_image never raises: a failure of the fetch, of the classifier
\* call or of the parsing of the reply yields the degraded record (success
\* false, energy 5, crowd 5, tags ["Unknown"], confidence 0.0, an error), and
\* inside analyze_batch the other calls are unaffected: a call with a
\* well-formed reply yields its score whatever happens to the others.
C6_FailuresDegrade ==
    /\ b_pc # "raised"
    /\ \A i \in Tasks :
          /\ t_pc[i] # "raised"
          /\ t_pc[i] \in {"sleeping", "done"} =>
                IF FailedInput(t_input[i])
                  THEN IsDegraded(t_result[i]) /\ t_result[i].image_url = image_urls[i]
                  ELSE t_result[i] = GoodAnalysis(image_urls[i])

\* C6's case: a batch that has returned, with a failed call and a successful one.
C6_Witness ==
    /\ b_pc = "returned"
    /\ \E i, j \in Tasks :
          /\ t_input[i].fetch = "http_error" /\ IsDegraded(b_result[i])
          /\ ~FailedInput(t_input[j]) /\ b_result[j].success

\* C7: every VibeAnalysis analyze_image returns has 1 <= energy_level <= 10,
\* 1 <= crowd_level <= 10, 0.0 <= confidence <= 1.0 and at most 4 tags.
C7_RangesHold ==
    (a_pc = "done" /\ ~analysis.raised) =>
        /\ analysis.val.energy_level \in 1..10
        /\ analysis.val.crowd_level \in 1..10
        /\ analysis.val.confidence \in 0..100
        /\ Len(analysis.val.vibe_tags) <= 4

\* C7's case: a reply with every value out of range and six tags, scored.
C7_Witness ==
    /\ a_pc = "done"
    /\ response_text =
          <<Json(Obj(Num(1200), Num(1100),
                     List(<<"Techno", "Dark", "Hype", "Massive", "DJ Set", "Dancing">>),
                     Missing, Num(150)))>>
    /\ analysis.val.success
    /\ analysis.val.energy_level = 10
    /\ analysis.val.confidence = 100
    /\ Len(analysis.val.vibe_tags) = 4

\* The classifier has replied and the call is over.
ReplyScored == a_pc = "done" /\ response_text # NoReply

\* The reply is the plain text of one JSON value / of one JSON object.
IsJsonText(text) == Len(text) = 1 /\ text[1].k = "json"
IsObjectText(text) == IsJsonText(text) /\ text[1].v.t = "object"

\* The replies C8 calls parse failures: malformed syntax, a JSON value that is
\* no object, an object with a field missing or of the wrong type.
HasMissingField(o) ==
    \E key \in DOMAIN o.f : o.f[key] = Missing

HasWrongType(o) ==
    \/ o.f.energy_level.t \in {"str", "null", "list", "object"}
    \/ o.f.crowd_level.t \in {"str", "null", "list", "object"}
    \/ o.f.vibe_tags.t \in {"null", "num", "object"}
    \/ o.f.confidence.t \in {"str", "null", "list"}

ClaimedParseFailure(text) ==
    \/ text \in MalformedTexts
    \/ IsJsonText(text) /\ text[1].v.t # "object"
    \/ IsObjectText(text) /\ (HasMissingField(text[1].v) \/ HasWrongType(text[1].v))

\* C8, as claimed: every such reply yields the degraded record with the
\* description "Failed to parse analysis" and an error naming the parse failure.
C8_ParseFailureDegrades ==
    (ReplyScored /\ ClaimedParseFailure(response_text)) =>
        /\ ~analysis.raised
        /\ IsDegraded(analysis.val)
        /\ analysis.val.description = "Failed to parse analysis"
        /\ analysis.val.error \in {"Parse error: JSONDecodeError",
                                   "Parse error: KeyError", "Parse error: TypeError"}

\* How the conversion of a field fails: "type" (int(), float() or [:4] of a
\* value of the wrong type), "value" (a string that is no number, NaN or
\* Infinity as a level) or "none".
LevelFailure(val) ==
    IF val.t \in {"null", "list", "object"} THEN "type"
    ELSE IF val.t \in {"str", "floatstr", "nan", "inf"} THEN "value"
    ELSE "none"

TagsFailure(val) ==
    IF val.t \in {"null", "num", "object", "nan", "inf"} THEN "type" ELSE "none"

ConfidenceFailure(val) ==
    IF val.t \in {"null", "list", "object"} THEN "type"
    ELSE IF val.t = "str" THEN "value"
    ELSE "none"

\* The fields are converted in the order energy_level, crowd_level, vibe_tags,
\* confidence: the first failure decides.
FirstFailure(o) ==
    IF LevelFailure(o.f.energy_level) # "none" THEN LevelFailure(o.f.energy_level)
    ELSE IF LevelFailure(o.f.crowd_level) # "none" THEN LevelFailure(o.f.crowd_level)
    ELSE IF TagsFailure(o.f.vibe_tags) # "none" THEN TagsFailure(o.f.vibe_tags)
    ELSE ConfidenceFailure(o.f.confidence)

\* C8, amended: a reply with malformed syntax, or an object whose first failing
\* field conversion meets a value of the wrong type (null, a list, an object
\* where a number is expected; null or a number as the tag list), yields the
\* degraded record with the description "Failed to parse analysis" and an error
\* "Parse error: ...".  A reply that is no JSON object, or whose first failing
\* conversion meets a string that is no number (or NaN or Infinity as a level),
\* yields the degraded values with the description "Analysis failed" and the
\* raw error.  A missing field is no failure: its default is used (energy 5,
\* crowd 5, no tag, "Unable to analyze", confidence 0.5) and success is true.
C8_ParseFailuresByKind ==
    ReplyScored =>
        /\ ~analysis.raised
        /\ response_text \in MalformedTexts =>
              analysis.val = Degraded(image_url, "Failed to parse analysis",
                                      "Parse error: JSONDecodeError")
        /\ (IsJsonText(response_text) /\ ~IsObjectText(response_text)) =>
              analysis.val = Degraded(image_url, "Analysis failed", "AttributeError")
        /\ IsObjectText(response_text) =>
              LET o == response_text[1].v
                  r == analysis.val
              IN  CASE FirstFailure(o) = "type" ->
                         r = Degraded(image_url, "Failed to parse analysis",
                                      "Parse error: TypeError")
                    [] FirstFailure(o) = "value" ->
                         /\ IsDegraded(r)
                         /\ r.description = "Analysis failed"
                         /\ r.error \in {"ValueError", "OverflowError"}
                    [] OTHER ->
                         /\ r.success /\ r.error = None
                         /\ o.f.energy_level = Missing => r.energy_level = 5
                         /\ o.f.crowd_level = Missing => r.crowd_level = 5
                         /\ o.f.vibe_tags = Missing => r.vibe_tags = <<>>
                         /\ o.f.description = Missing => r.description = "Unable to analyze"
                         /\ o.f.confidence = Missing => r.confidence = 50

\* C8's case: the reply "{}", every field missing, scored as a success.
C8_Witness ==
    /\ ReplyScored
    /\ response_text = <<Json(Obj(Missing, Missing, Missing, Missing, Missing))>>
    /\ analysis.val =
          VibeAnalysis(image_url, 5, 5, <<>>, "Unable to analyze", 50, TRUE, None)

\* C9: a JSON object text in code-fence markup (with or without a language
\* tag) parses to the same VibeAnalysis as the text alone.
\* Only the tag "json" is dropped, and the text is cut at the first "```"
\* after the opening fence, also when it lies inside the object.
C9_FencedParsesAlike == f_pc = "done" => f_fenced_result = f_plain_result

\* C10: analyze_batch returns one record per input URL, the i-th being the
\* score of the i-th URL, whatever the order of completion and whichever
\* calls fail.
C10_OrderPreserved ==
    b_pc = "returned" =>
        /\ Len(b_result) = Len(image_urls)
        /\ \A i \in Tasks :
              /\ b_result[i].image_url = image_urls[i]
              /\ b_result[i].success = ~FailedInput(t_input[i])

\* C10's case: three calls, the first not the first to complete, one failed
\* and one successful.
C10_Witness ==
    /\ b_pc = "returned"
    /\ Len(image_urls) = 3
    /\ completed[1] # 1
    /\ \E i, j \in Tasks : b_result[i].success /\ ~b_result[j].success
(***************************************************************************)
(*                 Properties of the admission gate                        *)
(***************************************************************************)
\* The scoring calls that have taken a slot of the semaphore and not yet
\* released it: inside analyze_image, or in the pacing delay after it
InFlight == { i \in Tasks : t_pc[i] \in {"fetching", "classifying", "sleeping"} }

AllDone == \A i \in Tasks : t_pc[i] = "done"

\* C11: during analyze_batch the number of scoring calls that have started
\* and not yet released their slot is at most concurrency, for every number
\* of input URLs; the free slots and the calls in flight add up to
\* concurrency.
C11_InFlightBounded ==
    b_pc = "gathering" =>
        /\ Cardinality(InFlight) <= concurrency
        /\ semaphore >= 0
        /\ semaphore + Cardinality(InFlight) = concurrency

\* C11's case: more URLs than slots, every slot taken, a call held back.
C11_Witness ==
    /\ b_pc = "gathering"
    /\ Len(image_urls) > concurrency
    /\ Cardinality(InFlight) = concurrency
    /\ \E i \in Tasks : t_pc[i] = "waiting"
    /\ \E i \in Tasks : t_pc[i] = "done"

\* C12: for every list of N URLs and every concurrency >= 1, analyze_batch
\* eventually returns, and it returns only after all N scoring calls have
\* completed, with one record per URL; a call that fails neither cancels nor
\* prevents any other call: no call is ever cancelled or raised, whatever the
\* other calls returned.
C12_ReturnsAfterAllCalls ==
    /\ <>(b_pc = "returned")
    /\ [](b_pc = "returned" => AllDone /\ Len(b_result) = Len(image_urls))
    /\ [](b_pc # "raised" /\ \A i \in Tasks : t_pc[i] # "raised")

\* C12's case: a batch that has returned although its first call to complete
\* had failed, with a call that started after that failure and succeeded.
C12_Witness ==
    /\ b_pc = "returned"
    /\ Len(image_urls) > concurrency
    /\ ~t_result[completed[1]].success
    /\ t_result[completed[Len(completed)]].success
    /\ AllDone

(***************************************************************************)
(*                  Properties of _aggregate_vibes                         *)
(***************************************************************************)
\* The positions of the input scores with success = true and confidence
\* strictly greater than 0.3
Counted ==
    { i \in DOMAIN g_analyses :
        g_analyses[i].success /\ g_analyses[i].confidence > 30 }

RECURSIVE SumOver(_, _)
SumOver(S, field) ==
    IF S = {} THEN 0
    ELSE LET i == CHOOSE x \in S : TRUE
         IN  g_analyses[i][field] + SumOver(S \ {i}, field)

\* t tenths is a nearest tenth of sum / n
NearestTenth(t, sum, n) ==
    /\ 2 * (10 * sum - t * n) <= n
    /\ 2 * (t * n - 10 * sum) <= n

RemoveAt(seq, i) == SubSeq(seq, 1, i - 1) \o SubSeq(seq, i + 1, Len(seq))

\* C13: _aggregate_vibes counts exactly the input scores with success = true
\* and confidence strictly greater than 0.3: sample_size is their number,
\* avg_energy and avg_crowd are the means over them rounded to one decimal,
\* and the input without a failed score, or without a score of confidence
\* 0.3 or less, has the same summary.
C13_CountsContributors ==
    g_pc \in {"returned", "raised"} =>
        /\ g_pc = "returned" =>
              LET n == Cardinality(Counted) IN
              /\ g_summary.val.sample_size = n
              /\ n > 0 =>
                   /\ NearestTenth(g_summary.val.avg_energy,
                                   SumOver(Counted, "energy_level"), n)
                   /\ NearestTenth(g_summary.val.avg_crowd,
                                   SumOver(Counted, "crowd_level"), n)
        /\ \A i \in DOMAIN g_analyses \ Counted :
              AggregateVibes(RemoveAt(g_analyses, i)) = g_summary

\* C13's case: a failed score of high confidence and a successful score of
\* confidence exactly 0.3 next to a contributing score.
C13_Witness ==
    /\ g_pc = "returned"
    /\ g_summary.val.sample_size = 1
    /\ \E i \in DOMAIN g_analyses :
          ~g_analyses[i].success /\ g_analyses[i].confidence > 30
    /\ \E i \in DOMAIN g_analyses :
          g_analyses[i].success /\ g_analyses[i].confidence = 30

\* C14: _aggregate_vibes applied to the empty list, or to a list in which
\* every score is failed or has confidence <= 0.3, returns status
\* "insufficient_data" with sample_size 0, avg_energy 5, avg_crowd 5 and
\* top_vibe_tags ["Unknown"]; and the status is "insufficient_data" in that
\* case only.
C14_InsufficientData ==
    g_pc \in {"returned", "raised"} =>
        /\ Counted = {} =>
              /\ g_pc = "returned"
              /\ g_summary.val =
                    Summary(50, 50, <<"Unknown">>, "insufficient_data", 0)
        /\ (g_pc = "returned" /\ g_summary.val.status = "insufficient_data")
              => Counted = {}

\* C14's case: a list of a failed score and a score of confidence 0.3.
C14_Witness ==
    /\ g_pc = "returned"
    /\ Len(g_analyses) >= 2
    /\ Counted = {}
    /\ \E i \in DOMAIN g_analyses : ~g_analyses[i].success
    /\ \E i \in DOMAIN g_analyses :
          g_analyses[i].success /\ g_analyses[i].confidence = 30
    /\ g_summary.val.status = "insufficient_data"

\* C15: for a non-empty contributing set the status is LIVE exactly when mean
\* energy >= 7 and mean crowd >= 7, otherwise warming_up exactly when mean
\* energy >= 5 or mean crowd >= 5, otherwise dead.
C15_StatusByMeans ==
    (g_pc = "returned" /\ Counted # {}) =>
        LET n    == Cardinality(Counted)
            sumE == SumOver(Counted, "energy_level")
            sumC == SumOver(Counted, "crowd_level")
            live == sumE >= 7 * n /\ sumC >= 7 * n
            warm == sumE >= 5 * n \/ sumC >= 5 * n
            st   == g_summary.val.status
        IN  /\ st \in {"LIVE", "warming_up", "dead"}
            /\ st = "LIVE" <=> live
            /\ st = "warming_up" <=> (~live /\ warm)
            /\ st = "dead" <=> (~live /\ ~warm)

\* C15's case: means 8.0 and 7.5 give LIVE.
C15_Witness ==
    /\ g_pc = "returned"
    /\ g_summary.val.sample_size = 2
    /\ g_summary.val.avg_energy = 80
    /\ g_summary.val.avg_crowd = 75
    /\ g_summary.val.status = "LIVE"

\* The places <<score, position>> of the tags of the contributing scores
TagPlaces ==
    UNION { { <<i, j>> : j \in DOMAIN g_analyses[i].vibe_tags } : i \in Counted }

TagAt(p) == g_analyses[p[1]].vibe_tags[p[2]]

SeenTags == { TagAt(p) : p \in TagPlaces }

Frequency(tag) == Cardinality({ p \in TagPlaces : TagAt(p) = tag })

Earlier(p, q) == p[1] < q[1] \/ (p[1] = q[1] /\ p[2] < q[2])

FirstSeen(tag) ==
    CHOOSE p \in TagPlaces :
        /\ TagAt(p) = tag
        /\ \A q \in TagPlaces : TagAt(q) = tag /\ q # p => Earlier(p, q)

\* a ranks before b: more frequent, or as frequent and first seen earlier
RanksBefore(a, b) ==
    \/ Frequency(a) > Frequency(b)
    \/ Frequency(a) = Frequency(b) /\ Earlier(FirstSeen(a), FirstSeen(b))

\* C16: top_vibe_tags holds the (at most 4) first tags of the contributing
\* scores in the order of decreasing frequency, tags of equal frequency in
\* the order in which they were first seen; it is ["Unknown"] when the
\* contributing scores carry no tag.
C16_TopTagsRanked ==
    (g_pc = "returned" /\ Counted # {}) =>
        LET top == g_summary.val.top_vibe_tags IN
        IF SeenTags = {} THEN top = <<"Unknown">>
        ELSE /\ Len(top) = Min(4, Cardinality(SeenTags))
             /\ \A i \in DOMAIN top : top[i] \in SeenTags
             /\ \A i, j \in DOMAIN top : i < j => RanksBefore(top[i], top[j])
             /\ \A t \in SeenTags :
                   (\A i \in DOMAIN top : top[i] # t) =>
                       \A i \in DOMAIN top : RanksBefore(top[i], t)

\* C16's case: tags [[Techno, Dark], [Techno, Hype], [Dark]] give
\* [Techno, Dark, Hype].
C16_Witness ==
    /\ g_pc = "returned"
    /\ Len(g_analyses) = 3
    /\ Counted = {1, 2, 3}
    /\ g_analyses[1].vibe_tags = <<"Techno", "Dark">>
    /\ g_analyses[2].vibe_tags = <<"Techno", "Hype">>
    /\ g_analyses[3].vibe_tags = <<"Dark">>
    /\ g_summary.val.top_vibe_tags = <<"Techno", "Dark", "Hype">>

(***************************************************************************)
(*                   Properties of scout_location                          *)
(***************************************************************************)
ScrapeReturned == s_pc \in {"scraped", "batch", "returned", "raised"} /\ ~scrape_result.raised

Invoked(fn) == \E i \in DOMAIN calls : calls[i].fn = fn

\* C17: when scrape_location returns success = false, scout_location returns
\* a report with success = false that carries the error of the scrape, and
\* neither analyze_batch nor _aggregate_vibes is invoked at any point of the
\* run.
C17_ScrapeFailureReturns ==
    (ScrapeReturned /\ ~scrape_result.val.success) =>
        /\ s_pc \in {"scraped", "returned"}
        /\ ~Invoked("analyze_batch")
        /\ ~Invoked("_aggregate_vibes")
        /\ s_pc = "returned" =>
              /\ report.success = FALSE
              /\ "error" \in report.keys
              /\ report.error = scrape_result.val.error
              /\ "analyses" \notin report.keys
              /\ "vibe_summary" \notin report.keys

\* C17's case: the run has returned after a scrape that exhausted its attempts.
C17_Witness ==
    /\ s_pc = "returned"
    /\ ~scrape_result.raised
    /\ ~scrape_result.val.success
    /\ scrape_result.val.error = ExhaustedError
    /\ report.error = ExhaustedError
    /\ analyze_images

\* C18: when the scrape succeeded with at least one media item and analyze
\* is true, scout_location runs analyze_batch on exactly the non-empty
\* thumbnail URLs in page order, then _aggregate_vibes on the resulting
\* scores, and the report carries those scores and the summary, whatever
\* number of the items have a thumbnail.
C18_BatchThenAggregate ==
    (/\ s_pc \in {"returned", "raised"}
     /\ ~scrape_result.raised
     /\ scrape_result.val.success
     /\ scrape_result.val.media_items # <<>>
     /\ analyze_images) =>
        /\ s_pc = "returned"
        /\ Len(calls) = 3
        /\ calls[2] = Call("analyze_batch",
                           ThumbnailUrls(scrape_result.val.media_items))
        /\ calls[3] = Call("_aggregate_vibes", analyses)
        /\ Len(analyses) = Len(thumbnail_urls)
        /\ report.analyses = analyses
        /\ report.vibe_summary = AggregateVibes(analyses).val

\* C19: when the scrape succeeded with zero media items, scout_location
\* returns a success report with post_count 0, no summary and a message;
\* when (the scrape succeeded with media items and) analyze is false it
\* returns a success report with an empty score list and no summary; in both
\* cases analyze_batch is never invoked.
C19_NoScoringWithoutWork ==
    /\ (ScrapeReturned /\ scrape_result.val.success
          /\ scrape_result.val.media_items = <<>>) =>
            /\ s_pc \in {"scraped", "returned"}
            /\ ~Invoked("analyze_batch")
            /\ s_pc = "returned" =>
                  /\ report.success
                  /\ report.post_count = 0
                  /\ "vibe_summary" \in report.keys
                  /\ report.vibe_summary = SummaryNone
                  /\ "message" \in report.keys
                  /\ report.message = "No posts found at this location"
    /\ (ScrapeReturned /\ scrape_result.val.success
          /\ scrape_result.val.media_items # <<>> /\ ~analyze_images) =>
            /\ s_pc \in {"scraped", "returned"}
            /\ ~Invoked("analyze_batch")
            /\ s_pc = "returned" =>
                  /\ report.success
                  /\ "analyses" \in report.keys
                  /\ report.analyses = <<>>
                  /\ "vibe_summary" \in report.keys
                  /\ report.vibe_summary = SummaryNone
                  /\ report.post_count = Len(scrape_result.val.media_items)

\* C19's case: analyze is false and the scrape found posts with thumbnails.
C19_Witness ==
    /\ s_pc = "returned"
    /\ ~analyze_images
    /\ ~scrape_result.raised
    /\ scrape_result.val.success
    /\ ThumbnailUrls(scrape_result.val.media_items) # <<>>
    /\ report.success
    /\ report.analyses = <<>>
    /\ calls = <<calls[1]>>

(***************************************************************************)
(*                 Properties of the backoff of scrape_location            *)
(***************************************************************************)
Slept(k, seconds) == \E j \in DOMAIN sleeps : sleeps[j] = <<k - 1, seconds>>

\* Attempt k was followed by attempt k + 1
Retried(k) == Len(outcomes) > k

\* The sleeps of the attempts that ended in the same way grow with k
SleepsGrow ==
    \A i, j \in DOMAIN sleeps :
        (/\ sleeps[i][1] < sleeps[j][1]
         /\ (outcomes[sleeps[i][1] + 1] = "429")
               <=> (outcomes[sleeps[j][1] + 1] = "429"))
        => sleeps[i][2] < sleeps[j][2]

\* C20: with the attempts numbered k = 1..max_retries, once scrape_location
\* is over: an attempt whose navigation answered 429 slept 30 * k seconds
\* and, unless it was the last, was followed by attempt k + 1; an attempt that
\* failed with an error and was not the last slept 5 * k seconds and was
\* followed by attempt k + 1; the sleeps of each kind grow strictly with k.
C20_BackoffEscalates ==
    pc \in {"returned", "raised"} =>
        /\ \A k \in DOMAIN outcomes :
              /\ outcomes[k] = "429" =>
                    /\ Slept(k, 30 * k)
                    /\ k < max_retries => Retried(k)
              /\ (outcomes[k] \notin {"429", "ok"} /\ k < max_retries) =>
                    /\ Slept(k, 5 * k)
                    /\ Retried(k)
        /\ SleepsGrow

(***************************************************************************)
(*  C21  The slot is held through the pacing delay                         *)
(***************************************************************************)
\* Task i is inside "await self.analyze_image(url)"
Analyzing(i) == t_pc[i] \in {"fetching", "classifying"}

\* Task i holds a slot of the semaphore
HoldsSlot(i) == t_pc[i] \in {"fetching", "classifying", "sleeping"}

\* C21: in every step of analyze_batch, a call whose analyze_image ends,
\* with a failed record as well as with a successful one, goes on to its pacing
\* delay and no slot is given back by that step; a call leaves its pacing
\* delay only by returning, and that step gives back exactly one slot; and a
\* waiting call is admitted only when fewer than `concurrency` calls hold a
\* slot, the calls inside their pacing delay counted among the holders.
C21_SlotHeldThroughDelay ==
    [][\A i \in Tasks :
          /\ (Analyzing(i) /\ ~Analyzing(i)') =>
                /\ t_pc'[i] = "sleeping"
                /\ semaphore' = semaphore
          /\ (t_pc[i] = "sleeping" /\ t_pc'[i] # "sleeping") =>
                /\ t_pc'[i] = "done"
                /\ semaphore' = semaphore + 1
          /\ (t_pc[i] = "waiting" /\ t_pc'[i] # "waiting") =>
                /\ Analyzing(i)'
                /\ Cardinality({ j \in Tasks : HoldsSlot(j) }) < concurrency
      ]_vars

\* Two calls are inside their pacing delay, one after a failed analyze_image
\* and one after a successful one; they hold both slots and a third call waits.
C21_Witness ==
    /\ b_pc = "gathering"
    /\ concurrency = 2
    /\ semaphore = 0
    /\ \E i, j, k \in Tasks :
          /\ t_pc[i] = "sleeping" /\ ~t_result[i].success
          /\ t_pc[j] = "sleeping" /\ t_result[j].success
          /\ t_pc[k] = "waiting"

(***************************************************************************)
(*  C22  A wait of one call does not block the other calls                 *)
(***************************************************************************)
\* The next step of an admitted call: the end of its image fetch, of its
\* classifier call or of its pacing delay
StepOf(j) == FetchDone(j) \/ AnalyzeDone(j) \/ SleepDone(j)

\* C22: while analyze_batch runs, whenever two calls hold a slot, the one
\* waiting on its image fetch, on its classifier call or on its pacing delay,
\* the other can take its next step.
C22_WaitsDoNotBlock ==
    b_pc = "gathering" =>
        \A i, j \in Tasks :
            (i # j /\ HoldsSlot(i) /\ HoldsSlot(j)) => ENABLED StepOf(j)

(***************************************************************************)
(*  C23  What _extract_media_from_page returns                             *)
(***************************************************************************)
\* The links the loop may read: the first 2 * max_items of the page
Scanned == 1..Min(Len(page_links), 2 * max_items)

\* The shortcode of link k is read: its href is there, is read without a
\* raise and holds /p/<shortcode>
ShortcodeRead(k) ==
    /\ page_links[k].raises # "href"
    /\ page_links[k].href = "post"

\* Link k is the first link of the page that shows its shortcode
FirstOccurrence(k) ==
    /\ ShortcodeRead(k)
    /\ \A j \in 1..(k - 1) :
          ShortcodeRead(j) => page_links[j].shortcode # page_links[k].shortcode

\* The scanned links that yield an item: first occurrences whose processing
\* does not raise
Yielding == { k \in Scanned : FirstOccurrence(k) /\ page_links[k].raises = "no" }

\* Item n of the result was made from link k
MadeFrom(n, k) ==
    /\ media_items[n].shortcode = page_links[k].shortcode
    /\ media_items[n].thumbnail_url = page_links[k].thumb
    /\ media_items[n].media_type = (IF page_links[k].video THEN "video" ELSE "image")

\* C23: the list _extract_media_from_page returns has at most max_items
\* items with pairwise distinct shortcodes; its items are made, in page order,
\* from the first yielding links among the first 2 * max_items links of the
\* page, each the first occurrence of its shortcode; the links without href,
\* without shortcode or whose processing raises yield nothing and do not end
\* the extraction: the list is short of max_items only when the scanned links
\* yield no more.
C23_ExtractedItems ==
    pc = "extracted" =>
        /\ Len(media_items) <= max_items
        /\ \A m, n \in DOMAIN media_items :
              m # n => media_items[m].shortcode # media_items[n].shortcode
        /\ Len(media_items) = Min(max_items, Cardinality(Yielding))
        /\ \A n \in DOMAIN media_items :
              \E k \in Yielding :
                  /\ MadeFrom(n, k)
                  /\ Cardinality({ j \in Yielding : j < k }) = n - 1

\* A page longer than the scanned part, whose scanned part holds a link
\* without href, one without shortcode, a repeated shortcode and a link whose
\* processing raises, and still yields an item after them; a yielding link
\* lies beyond the scanned part.
C23_Witness ==
    /\ pc = "extracted"
    /\ max_items = 2
    /\ Len(page_links) > 2 * max_items
    /\ \E a, b, c \in Scanned :
          /\ a < b /\ b < c
          /\ page_links[a].href # "post"
          /\ page_links[b].raises # "no"
          /\ c \in Yielding
    /\ \E k \in Scanned : ShortcodeRead(k) /\ ~FirstOccurrence(k)
    /\ Len(media_items) = 1
    /\ \E k \in DOMAIN page_links \ Scanned :
          /\ FirstOccurrence(k)
          /\ page_links[k].raises = "no"

(***************************************************************************)
(*  C24  An attempt releases only the session it opened                    *)
(***************************************************************************)
\* Release k of the log was made by the attempt that opened the session
OwnSession(k) == closes[k][3] = closes[k][1] + 1

\* Releases k and l act on the same browser, or on the same driver
SameSession(k, l) == closes[k][2] = closes[l][2] /\ closes[k][3] = closes[l][3]

\* C24: at every point of scrape_location, each release performed so far
\* (a browser.close() or a playwright.stop()) acted on the session opened by
\* the attempt that performed it, and no browser and no driver was released
\* twice.
C24_ReleasesOwnSession ==
    /\ \A k \in DOMAIN closes : OwnSession(k)
    /\ \A k, l \in DOMAIN closes : k # l => ~SameSession(k, l)

(***************************************************************************)
(*  C25  No backoff sleep after the final attempt                          *)
(***************************************************************************)
\* C25: once scrape_location has returned, no recorded backoff sleep (30 * k
\* after a 429, 5 * k after an error) was performed by the final attempt, the
\* attempt numbered max_retries.
C25_NoSleepAfterFinalAttempt ==
    pc = "returned" =>
        \A k \in DOMAIN sleeps : sleeps[k][1] + 1 < max_retries

====
